---------------------------- MODULE Spec2Model ----------------------------
(***************************************************************************)
(* Two PyQt scripts that measure lesion area on retinal OCT scans:         *)
(*   finalrun.py            OCTLesionAutoApp  (automatic pipeline)         *)
(*   tempCodeRunnerFile.py  LesionAreaApp     (manual polygon trace)       *)
(* Exactly one of the two scripts runs; `app` records which.  Every Qt or  *)
(* matplotlib callback is one action; callbacks run to completion on the   *)
(* single GUI thread.                                                      *)
(*                                                                         *)
(* Encodings                                                               *)
(*  - Python None is the record None.                                      *)
(*  - A binary numpy array is a record [h, w, fg]: its shape and its       *)
(*    foreground as a set of pairwise disjoint filled rectangles           *)
(*    [top, left, height, width] (a single pixel is a 1 x 1 rectangle).    *)
(*  - A grayscale image is [h, w, comps]: its shape and the connected      *)
(*    components that the library stages bilateralFilter,                  *)
(*    adaptiveThreshold and morphologyEx leave in `opened`; these three    *)
(*    calls are the input of the model, not part of it.                    *)
(*  - Floats are exact rationals with a fixed denominator: a coordinate    *)
(*    is counted in half pixels, 0.01172 mm is 293/25000 mm and 0.006 mm   *)
(*    is 3/500 mm.                                                         *)
(***************************************************************************)
EXTENDS Integers, Sequences, FiniteSets

VARIABLES
    app,          \* "auto" (finalrun.py) or "manual" (tempCodeRunnerFile.py)
    image,        \* self.image
    mask,         \* auto: self.mask
    label_info,   \* auto: text of self.label_info
    btn_clear,    \* auto: self.btn_clear.isEnabled()
    btn_save,     \* auto: self.btn_save.isEnabled()
    saved,        \* auto: TRUE iff cv2.imwrite has written a result file
    mask_clean,   \* auto: local mask_clean of process_image
    damaged_px,   \* auto: local damaged_px of process_image
    area_mm2,     \* auto: local area_mm2 of process_image
    drawing,      \* manual: self.drawing
    points,       \* manual: self.points
    area_label,   \* manual: text of self.area_label
    pixel_area,   \* manual: local pixel_area of calculate_area
    mm2_area,     \* manual: local mm2_area of calculate_area
    ev,           \* the callback that ran last and the branch it took
    raised        \* TRUE iff the callback that ran last raised an exception

vars == <<app, image, mask, label_info, btn_clear, btn_save, saved, mask_clean,
          damaged_px, area_mm2, drawing, points, area_label, pixel_area,
          mm2_area, ev, raised>>

None == [none |-> TRUE]

autoVars == <<label_info, btn_clear, btn_save, saved>>

manualVars == <<drawing, points, area_label>>

\* The locals hold the values the callback that ran last gave them; a
\* callback that does not reach the statement leaves none behind.
NoAutoLocals == mask_clean' = None /\ damaged_px' = 0 /\ area_mm2' = 0

NoManualLocals == pixel_area' = 0 /\ mm2_area' = 0

-----------------------------------------------------------------------------
(* Bounds of the model. *)

\* longest point sequence a trace may collect
MaxPoints == 3

\* most connected components in the opened mask of an input image
MaxComps == 2

-----------------------------------------------------------------------------
(* Program constants. *)

\* self.mm_per_px = 0.01172, in units of 1/25000 mm
mm_per_px == 293

\* self.pixel_spacing_mm = 0.006, in units of 1/500 mm
pixel_spacing_mm == 3

\* if 100 < area < 3000
MinArea == 100

MaxArea == 3000

-----------------------------------------------------------------------------
(* Binary arrays. *)

Rect(t, l, hh, ww) == [top |-> t, left |-> l, height |-> hh, width |-> ww]

RectRows(c) == c.top .. (c.top + c.height - 1)

RectCols(c) == c.left .. (c.left + c.width - 1)

\* mask[r, c] > 0
MaskAt(m, r, c) == \E q \in m.fg : r \in RectRows(q) /\ c \in RectCols(q)

\* the foreground of a binary array as a set of <<row, column>> cells
Pixels(m) == {rc \in (0 .. m.h - 1) \X (0 .. m.w - 1) : MaskAt(m, rc[1], rc[2])}

RECURSIVE SumSizes(_)
SumSizes(S) ==
    IF S = {} THEN 0
    ELSE LET q == CHOOSE x \in S : TRUE
         IN  q.height * q.width + SumSizes(S \ {q})

\* int(np.sum(m > 0)): the rectangles of fg are pairwise disjoint
CountNonZero(m) == SumSizes(m.fg)

\* np.zeros_like(a)
ZerosLike(a) == [h |-> a.h, w |-> a.w, fg |-> {}]

\* the cells two filled rectangles share, as a set of at most one rectangle
RectAnd(p, q) ==
    LET t == IF p.top > q.top THEN p.top ELSE q.top
        l == IF p.left > q.left THEN p.left ELSE q.left
        b == IF p.top + p.height < q.top + q.height
             THEN p.top + p.height ELSE q.top + q.height
        r == IF p.left + p.width < q.left + q.width
             THEN p.left + p.width ELSE q.left + q.width
    IN  IF b > t /\ r > l THEN {Rect(t, l, b - t, r - l)} ELSE {}

\* cv2.bitwise_and(a, b) for binary arrays of one shape
bitwise_and(a, b) ==
    [h |-> a.h, w |-> a.w,
     fg |-> UNION {RectAnd(p, q) : <<p, q>> \in a.fg \X b.fg}]

\* cv2.rectangle(m, (x1, y1), (x2, y2), 255, -1) on an all-zero array m:
\* both corners belong to the rectangle, which is clipped to the array
rectangle(m, x1, y1, x2, y2) ==
    [h |-> m.h, w |-> m.w,
     fg |-> RectAnd(Rect(y1, x1, y2 - y1 + 1, x2 - x1 + 1), Rect(0, 0, m.h, m.w))]

-----------------------------------------------------------------------------
(* finalrun.py: the pipeline of process_image. *)

\* cv2.contourArea(cnt) for the external contour of a filled h x w rectangle
\* of pixels: findContours returns the centres of the four corner pixels and
\* contourArea the area of the polygon through them
contourArea(cnt) == (cnt.height - 1) * (cnt.width - 1)

\* the number of pixels of a component
PixelCount(cnt) == cnt.height * cnt.width

\* InBand with the bounds of the band included
InBand_Inclusive(area) == MinArea <= area /\ area <= MaxArea

\* if 100 < area < 3000
InBand(area) == MinArea < area /\ area < MaxArea

\* Step 4: mask_clean after the loop over the external contours of opened
ContourFilter(opened) ==
    [h |-> opened.h, w |-> opened.w,
     fg |-> {cnt \in opened.fg : InBand(contourArea(cnt))}]

\* RoiTop with the fraction 0.02 in place of 0.2
RoiTop_Slip(h) == (h * 2) \div 100

\* int(h * 0.2)
RoiTop(h) == (h * 2) \div 10

\* int(h * 0.85)
RoiBottom(h) == (h * 85) \div 100

\* Step 5: roi_mask
RoiMask(img) ==
    rectangle(ZerosLike(img), 0, RoiTop(img.h), img.w, RoiBottom(img.h))

\* Step 5: final_mask
FinalMask(clean, img) == bitwise_and(clean, RoiMask(img))

\* the output of steps 1 to 3 on img
Opened(img) == [h |-> img.h, w |-> img.w, fg |-> img.comps]

\* AreaMm2 without the square
AreaMm2_Linear(px) == px * mm_per_px

\* Step 6: damaged_px * (self.mm_per_px ** 2), in units of 1/625000000 mm^2
AreaMm2(px) == px * (mm_per_px * mm_per_px)

\* f"{area_mm2:.2f}" as a number of hundredths of a mm^2
Fmt2(a) == (a + 3125000) \div 6250000

Label(k, v) == [kind |-> k, val |-> v]

-----------------------------------------------------------------------------
(* Input files. *)

ImgSizes == {<<19, 70>>, <<20, 70>>, <<60, 70>>}

Shapes == {<<3, 3>>, <<11, 11>>, <<6, 22>>, <<51, 60>>, <<51, 61>>}

\* the components an opened mask of shape h x w may hold: every shape in the
\* top row at the left or the right, the 6 x 22 one also in the bottom rows
CandRects(h, w) ==
    {Rect(x[2], x[3], x[1][1], x[1][2]) :
        x \in {y \in Shapes \X {0, h - 6} \X {0, w - 22} :
                  /\ y[2] = 0 \/ y[1] = <<6, 22>>
                  /\ y[2] + y[1][1] <= h
                  /\ y[3] + y[1][2] <= w}}

\* two components are distinct 8-connected components: no cell of one
\* touches a cell of the other
Apart(p, q) ==
    \/ p.top + p.height < q.top
    \/ q.top + q.height < p.top
    \/ p.left + p.width < q.left
    \/ q.left + q.width < p.left

\* the files cv2.imread decodes for the automatic app
AutoImages ==
    UNION {{[h |-> sz[1], w |-> sz[2], comps |-> cs] :
              cs \in {x \in SUBSET CandRects(sz[1], sz[2]) :
                        /\ Cardinality(x) <= MaxComps
                        /\ \A p \in x : \A q \in x \ {p} : Apart(p, q)}}
           : sz \in ImgSizes}

-----------------------------------------------------------------------------
(* finalrun.py: OCTLesionAutoApp. *)

\* process_image, steps 4 to 7, run on the image just stored in self.image
process_image(img) ==
    LET clean == ContourFilter(Opened(img))
        final == FinalMask(clean, img)
        px    == CountNonZero(final)
    IN  /\ mask_clean' = clean
        /\ mask' = final
        /\ damaged_px' = px
        /\ area_mm2' = AreaMm2(px)
        /\ label_info' = Label("area", Fmt2(AreaMm2(px)))
        /\ btn_clear' = TRUE
        /\ btn_save' = TRUE

\* load_image: the file dialog is cancelled
AutoLoadCancel ==
    /\ app = "auto"
    /\ ev' = "load_cancel"
    /\ raised' = FALSE
    /\ NoAutoLocals
    /\ UNCHANGED <<app, image, mask, autoVars, manualVars, pixel_area, mm2_area>>

\* load_image: cv2.imread returns None
AutoLoadFail ==
    /\ app = "auto"
    /\ label_info' = Label("failed", 0)
    /\ ev' = "load_fail"
    /\ raised' = FALSE
    /\ NoAutoLocals
    /\ UNCHANGED <<app, image, mask, btn_clear, btn_save, saved, manualVars,
                   pixel_area, mm2_area>>

\* load_image: cv2.imread decodes the file, process_image runs
AutoLoadOk ==
    /\ app = "auto"
    /\ \E img \in AutoImages :
          /\ image' = img
          /\ process_image(img)
    /\ ev' = "load_ok"
    /\ raised' = FALSE
    /\ UNCHANGED <<app, saved, manualVars, pixel_area, mm2_area>>

\* save_result; a disabled button emits no clicked signal
save_result ==
    /\ app = "auto"
    /\ btn_save
    /\ IF image = None \/ mask = None
       THEN /\ ev' = "save_ignored"
            /\ UNCHANGED <<saved, label_info>>
       ELSE \/ /\ saved' = TRUE
               /\ label_info' = Label("saved", 0)
               /\ ev' = "save"
            \/ /\ ev' = "save_cancel"
               /\ UNCHANGED <<saved, label_info>>
    /\ raised' = FALSE
    /\ NoAutoLocals
    /\ UNCHANGED <<app, image, mask, btn_clear, btn_save, manualVars,
                   pixel_area, mm2_area>>

\* reset_view without self.mask = None
reset_view_KeepMask ==
    /\ app = "auto"
    /\ btn_clear
    /\ image' = None
    /\ label_info' = Label("prompt", 0)
    /\ btn_clear' = FALSE
    /\ btn_save' = FALSE
    /\ ev' = "reset"
    /\ raised' = FALSE
    /\ NoAutoLocals
    /\ UNCHANGED <<app, mask, saved, manualVars, pixel_area, mm2_area>>

\* reset_view; a disabled button emits no clicked signal
reset_view ==
    /\ app = "auto"
    /\ btn_clear
    /\ image' = None
    /\ mask' = None
    /\ label_info' = Label("prompt", 0)
    /\ btn_clear' = FALSE
    /\ btn_save' = FALSE
    /\ ev' = "reset"
    /\ raised' = FALSE
    /\ NoAutoLocals
    /\ UNCHANGED <<app, saved, manualVars, pixel_area, mm2_area>>

-----------------------------------------------------------------------------
(* tempCodeRunnerFile.py: the area of a traced polygon. *)

Abs(n) == IF n < 0 THEN -n ELSE n

Sgn(n) == IF n < 0 THEN -1 ELSE IF n > 0 THEN 1 ELSE 0

Min(a, b) == IF a < b THEN a ELSE b

Max(a, b) == IF a < b THEN b ELSE a

\* the conversion of one float coordinate (in half pixels) to np.int32:
\* truncation toward zero
Trunc(v) == IF v >= 0 THEN v \div 2 ELSE -((-v) \div 2)

\* np.array(self.points, dtype=np.int32), a sequence of <<x, y>>
ToInt32(pts) == [i \in DOMAIN pts |-> <<Trunc(pts[i][1]), Trunc(pts[i][2])>>]

\* cell q = <<x, y>> is drawn by the rasterised segment from a to b: along
\* the major axis every column (row) between the end points gets the cell
\* nearest the segment, a half rounding up
OnLine(q, a, b) ==
    LET dx == b[1] - a[1]
        dy == b[2] - a[2]
    IN  /\ Min(a[1], b[1]) <= q[1] /\ q[1] <= Max(a[1], b[1])
        /\ Min(a[2], b[2]) <= q[2] /\ q[2] <= Max(a[2], b[2])
        /\ IF dx = 0 /\ dy = 0 THEN TRUE
           ELSE IF Abs(dx) >= Abs(dy)
           THEN LET D == Abs(dx)
                    N == a[2] * D + (q[1] - a[1]) * dy * Sgn(dx)
                IN  2 * q[2] * D <= 2 * N + D /\ 2 * N + D < 2 * (q[2] + 1) * D
           ELSE LET D == Abs(dy)
                    N == a[1] * D + (q[2] - a[2]) * dx * Sgn(dy)
                IN  2 * q[1] * D <= 2 * N + D /\ 2 * N + D < 2 * (q[1] + 1) * D

\* the horizontal ray from q to the right crosses the edge from a to b
Crosses(q, a, b) ==
    /\ (a[2] > q[2]) # (b[2] > q[2])
    /\ IF b[2] > a[2]
       THEN (q[1] - a[1]) * (b[2] - a[2]) < (q[2] - a[2]) * (b[1] - a[1])
       ELSE (q[1] - a[1]) * (b[2] - a[2]) > (q[2] - a[2]) * (b[1] - a[1])

\* cv2.fillPoly(mask, [pts], 1) on an all-zero mask of the shape of img: the
\* polygon is closed from the last point to the first, its edges are drawn
\* and its interior is filled by the even-odd rule; cells outside the array
\* are clipped
fillPoly(img, pts) ==
    LET n       == Len(pts)
        nxt(i)  == IF i = n THEN 1 ELSE i + 1
        edge(q) == \E i \in 1 .. n : OnLine(q, pts[i], pts[nxt(i)])
        in(q)   == Cardinality({i \in 1 .. n : Crosses(q, pts[i], pts[nxt(i)])}) % 2 = 1
    IN  [h |-> img.h, w |-> img.w,
         fg |-> {Rect(q[2], q[1], 1, 1) :
                   q \in {x \in (0 .. img.w - 1) \X (0 .. img.h - 1) : edge(x) \/ in(x)}}]

\* pixel_area * (self.pixel_spacing_mm ** 2), in units of 1/250000 mm^2
Mm2Area(px) == px * (pixel_spacing_mm * pixel_spacing_mm)

\* f"{mm2_area:.4f}" as a number of ten-thousandths of a mm^2
Fmt4(a) == (2 * a + 25) \div 50

\* the files cv2.imread decodes for the manual app
ManualImages == {[h |-> 3, w |-> 3, comps |-> {}], [h |-> 2, w |-> 4, comps |-> {}]}

\* pointer positions <<xdata, ydata>> in half pixels
Samples == {<<-1, -1>>, <<5, 1>>, <<1, 5>>, <<2, 2>>}

\* the positions inside the axes: imshow sets the limits to
\* (-0.5, w - 0.5) x (-0.5, h - 0.5); cleared axes have the limits (0, 1)
InAxes(img) ==
    IF img = None
    THEN {p \in Samples : 0 <= p[1] /\ p[1] <= 2 /\ 0 <= p[2] /\ p[2] <= 2}
    ELSE {p \in Samples : /\ -1 <= p[1] /\ p[1] <= 2 * img.w - 1
                          /\ -1 <= p[2] /\ p[2] <= 2 * img.h - 1}

-----------------------------------------------------------------------------
(* tempCodeRunnerFile.py: LesionAreaApp. *)

\* load_image: the file dialog is cancelled
ManualLoadCancel ==
    /\ app = "manual"
    /\ ev' = "load_cancel"
    /\ raised' = FALSE
    /\ NoManualLocals
    /\ UNCHANGED <<app, image, mask, autoVars, manualVars, mask_clean, damaged_px, area_mm2>>

\* load_image: self.image = cv2.imread(...), None when the file does not
\* decode; show_image redraws
ManualLoad ==
    /\ app = "manual"
    /\ \E img \in ManualImages \cup {None} :
          /\ image' = img
          /\ ev' = IF img = None THEN "load_fail" ELSE "load_ok"
    /\ raised' = FALSE
    /\ NoManualLocals
    /\ UNCHANGED <<app, mask, autoVars, manualVars, mask_clean, damaged_px, area_mm2>>

\* clear_points
clear_points ==
    /\ app = "manual"
    /\ points' = <<>>
    /\ area_label' = Label("prompt", 0)
    /\ ev' = "clear"
    /\ raised' = FALSE
    /\ NoManualLocals
    /\ UNCHANGED <<app, image, mask, autoVars, drawing, mask_clean, damaged_px, area_mm2>>

\* on_click appending the contact point instead of starting a new sequence
on_click_Append ==
    /\ app = "manual"
    /\ \E inaxes \in BOOLEAN : \E p \in Samples :
          /\ inaxes => p \in InAxes(image)
          /\ IF ~inaxes \/ image = None
             THEN /\ ev' = "click_ignored"
                  /\ UNCHANGED <<drawing, points>>
             ELSE /\ Len(points) < MaxPoints
                  /\ drawing' = TRUE
                  /\ points' = Append(points, p)
                  /\ ev' = "click"
    /\ raised' = FALSE
    /\ NoManualLocals
    /\ UNCHANGED <<app, image, mask, autoVars, area_label, mask_clean, damaged_px, area_mm2>>

\* on_click
on_click ==
    /\ app = "manual"
    /\ \E inaxes \in BOOLEAN : \E p \in Samples :
          /\ inaxes => p \in InAxes(image)
          /\ IF ~inaxes \/ image = None
             THEN /\ ev' = "click_ignored"
                  /\ UNCHANGED <<drawing, points>>
             ELSE /\ drawing' = TRUE
                  /\ points' = <<p>>
                  /\ ev' = "click"
    /\ raised' = FALSE
    /\ NoManualLocals
    /\ UNCHANGED <<app, image, mask, autoVars, area_label, mask_clean, damaged_px, area_mm2>>

\* on_motion without the test of self.drawing
on_motion_NoGuard ==
    /\ app = "manual"
    /\ \E inaxes \in BOOLEAN : \E p \in Samples :
          /\ inaxes => p \in InAxes(image)
          /\ IF inaxes
             THEN /\ Len(points) < MaxPoints
                  /\ points' = Append(points, p)
                  /\ ev' = "motion"
             ELSE /\ ev' = "motion_ignored"
                  /\ UNCHANGED points
    /\ raised' = FALSE
    /\ NoManualLocals
    /\ UNCHANGED <<app, image, mask, autoVars, drawing, area_label, mask_clean,
                   damaged_px, area_mm2>>

\* on_motion
on_motion ==
    /\ app = "manual"
    /\ \E inaxes \in BOOLEAN : \E p \in Samples :
          /\ inaxes => p \in InAxes(image)
          /\ IF drawing /\ inaxes
             THEN /\ Len(points) < MaxPoints
                  /\ points' = Append(points, p)
                  /\ ev' = "motion"
             ELSE /\ ev' = "motion_ignored"
                  /\ UNCHANGED points
    /\ raised' = FALSE
    /\ NoManualLocals
    /\ UNCHANGED <<app, image, mask, autoVars, drawing, area_label, mask_clean,
                   damaged_px, area_mm2>>

\* calculate_area, called by on_release
calculate_area ==
    IF Len(points) < 3
    THEN /\ area_label' = Label("closed", 0)
         /\ raised' = FALSE
         /\ NoManualLocals
    ELSE IF image = None
    THEN \* np.zeros(self.image.shape, ...) raises AttributeError
         /\ raised' = TRUE
         /\ NoManualLocals
         /\ UNCHANGED area_label
    ELSE LET px == CountNonZero(fillPoly(image, ToInt32(points)))
         IN  /\ pixel_area' = px
             /\ mm2_area' = Mm2Area(px)
             /\ area_label' = Label("area", Fmt4(Mm2Area(px)))
             /\ raised' = FALSE

\* on_release
on_release ==
    /\ app = "manual"
    /\ IF ~drawing
       THEN /\ ev' = "release_ignored"
            /\ raised' = FALSE
            /\ NoManualLocals
            /\ UNCHANGED <<drawing, area_label>>
       ELSE /\ drawing' = FALSE
            /\ ev' = "release"
            /\ calculate_area
    /\ UNCHANGED <<app, image, mask, autoVars, points, mask_clean, damaged_px, area_mm2>>

-----------------------------------------------------------------------------
(* The two scripts. *)

Init ==
    /\ app \in {"auto", "manual"}
    /\ image = None
    /\ mask = None
    /\ label_info = Label("prompt", 0)
    /\ btn_clear = FALSE
    /\ btn_save = FALSE
    /\ saved = FALSE
    /\ mask_clean = None
    /\ damaged_px = 0
    /\ area_mm2 = 0
    /\ drawing = FALSE
    /\ points = <<>>
    /\ area_label = Label("prompt", 0)
    /\ pixel_area = 0
    /\ mm2_area = 0
    /\ ev = "init"
    /\ raised = FALSE

Next ==
    \/ AutoLoadCancel
    \/ AutoLoadFail
    \/ AutoLoadOk
    \/ save_result
    \/ reset_view
    \/ ManualLoadCancel
    \/ ManualLoad
    \/ clear_points
    \/ on_click
    \/ on_motion
    \/ on_release

Spec == Init /\ [][Next]_vars

-----------------------------------------------------------------------------
(* Properties. *)

\* floor(pct/100 * n) and ceil(pct/100 * n)
FloorPct(pct, n) == (pct * n) \div 100

CeilPct(pct, n) == (pct * n + 99) \div 100

\* the cells of a filled rectangle
Cells(q) == RectRows(q) \X RectCols(q)

\* three float points do not lie on one line
NonCollinear(a, b, c) ==
    (b[1] - a[1]) * (c[2] - a[2]) - (b[2] - a[2]) * (c[1] - a[1]) # 0

\* C1 (as claimed): clear_points, in any state, leaves the tracer idle
\* (drawing = False) with an empty point sequence, so that a motion event
\* after it appends nothing until the next press.
C1_ClearForcesIdle ==
    [][ev' = "clear" => (drawing' = FALSE /\ points' = <<>>)]_vars

\* C2 (as claimed): every foreground cell of the final mask lies in a row r
\* with floor(0.20 H) <= r < ceil(0.85 H).
C2_RoiRowsHalfOpen ==
    (app = "auto" /\ mask # None) =>
        \A r \in 0 .. mask.h - 1 : \A c \in 0 .. mask.w - 1 :
            MaskAt(mask, r, c) =>
                FloorPct(20, mask.h) <= r /\ r < CeilPct(85, mask.h)

\* C2 (amended): every foreground cell of the final mask lies in a row r
\* with floor(0.20 H) <= r <= floor(0.85 H); row floor(0.85 H) belongs to
\* the band.
C2_RoiRowsClosed ==
    (app = "auto" /\ mask # None) =>
        \A r \in 0 .. mask.h - 1 : \A c \in 0 .. mask.w - 1 :
            MaskAt(mask, r, c) =>
                FloorPct(20, mask.h) <= r /\ r <= FloorPct(85, mask.h)

\* C2 witness: a run whose region-filtered mask has foreground above the
\* band and whose final mask has foreground in row floor(0.85 H) = 0.85 H.
C2_Witness ==
    /\ app = "auto" /\ ev = "load_ok"
    /\ 85 * mask.h = 100 * FloorPct(85, mask.h)
    /\ \E c \in 0 .. mask.w - 1 : MaskAt(mask, FloorPct(85, mask.h), c)
    /\ \E c \in 0 .. mask.w - 1 : MaskAt(mask_clean, 0, c)

C4_FailedLoadKeepsState ==
    [][ev' = "load_fail" =>
          /\ image' = image
          /\ mask' = mask
          /\ IF app = "auto" THEN label_info'.kind = "failed"
                             ELSE area_label'.kind = "failed"]_vars

\* C5 (as claimed): the release that ends a trace reports a number iff the
\* trace holds at least 3 points; with fewer it reports the cannot-compute
\* condition and nothing raises; with exactly 3 non-collinear points the
\* pixel count and the area are nonzero.
C5_ReleaseReportsIffThree ==
    [][ev' = "release" =>
          /\ Len(points) < 3 => (area_label'.kind = "closed" /\ ~raised')
          /\ Len(points) >= 3 => (area_label'.kind = "area" /\ ~raised')
          /\ (Len(points) = 3 /\ NonCollinear(points[1], points[2], points[3]))
                => (pixel_area' > 0 /\ mm2_area' > 0)]_vars

\* C6 (as claimed): after a release with fewer than 3 points the point
\* sequence is unchanged by the release and by every later event until
\* clear_points runs.
C6_ShortTraceKeptUntilClear ==
    [][/\ (ev' = "release" /\ Len(points) < 3) => points' = points
       /\ (area_label.kind = "closed" /\ ev' # "clear") => points' = points]_vars

\* C6 (amended): after a release with fewer than 3 points the point sequence
\* is unchanged by the release and by every later event until clear_points
\* runs or a press is accepted; an accepted press replaces the sequence by
\* the one new point, so nothing is ever added to the kept sequence.
C6_ShortTraceKeptUntilClearOrPress ==
    [][/\ (ev' = "release" /\ Len(points) < 3) => points' = points
       /\ (area_label.kind = "closed" /\ ~drawing /\ ev' \notin {"clear", "click"})
             => points' = points
       /\ (area_label.kind = "closed" /\ ~drawing /\ ev' = "click")
             => Len(points') = 1]_vars

\* C6 witness: a trace of exactly 2 points has been released and a motion
\* event has been handled since.
C6_Witness ==
    /\ app = "manual" /\ ev = "motion_ignored"
    /\ area_label.kind = "closed" /\ ~drawing /\ Len(points) = 2

\* C7: an accepted press leaves exactly the one new point in the sequence,
\* and apart from press and clear the sequence changes only by a motion event
\* appending one point while a trace is in progress.
C7_PressResetsMotionAppends ==
    [][/\ ev' = "click" =>
             (drawing' /\ Len(points') = 1 /\ points'[1] \in InAxes(image))
       /\ (points' # points /\ ev' \notin {"click", "clear"}) =>
             /\ ev' = "motion" /\ drawing /\ drawing'
             /\ Len(points') = Len(points) + 1
             /\ SubSeq(points', 1, Len(points)) = points]_vars

\* C7 witness: a press has just been accepted while the label still shows
\* the area of an earlier trace of at least 3 points.
C7_Witness ==
    /\ app = "manual" /\ ev = "click"
    /\ area_label.kind = "area" /\ Len(points) = 1

\* C8: a pipeline run counts exactly the foreground cells of the final mask
\* and multiplies the count by the square of the calibration factor; an
\* all-background mask gives count 0 and area 0 with no exception; the
\* manual area is its pixel count times the square of its calibration.
C8_AreaIsCountTimesSquare ==
    /\ (app = "auto" /\ ev = "load_ok") =>
          /\ damaged_px = Cardinality(Pixels(mask))
          /\ area_mm2 = damaged_px * mm_per_px * mm_per_px
          /\ mask.fg = {} => (damaged_px = 0 /\ area_mm2 = 0)
          /\ ~raised
    /\ (app = "manual" /\ ev = "release") =>
          mm2_area = pixel_area * pixel_spacing_mm * pixel_spacing_mm

\* C8 witness: a run whose final mask is non-empty and smaller than the
\* region-filtered mask.
C8_Witness ==
    /\ app = "auto" /\ ev = "load_ok"
    /\ 0 < damaged_px /\ damaged_px < CountNonZero(mask_clean)

\* C9 (as claimed): in the manual app a trace is in progress only while an
\* image is loaded.
C9_DrawingNeedsImage ==
    (app = "manual" /\ drawing) => image # None

\* C10: in the automatic app image is None exactly when mask is None, both
\* buttons are enabled exactly when both are set, and the mask is the mask
\* of the loaded image: it has its shape and every foreground rectangle
\* lies inside one of its components.
C10_ImageMaskButtons ==
    app = "auto" =>
        /\ (image = None) <=> (mask = None)
        /\ btn_save <=> (image # None /\ mask # None)
        /\ btn_clear <=> (image # None /\ mask # None)
        /\ mask # None =>
              /\ mask.h = image.h /\ mask.w = image.w
              /\ \A q \in mask.fg : \E cnt \in image.comps : RectAnd(q, cnt) = {q}

\* C10 witness: an image has been loaded after a result was saved for an
\* earlier one.
C10_Witness ==
    /\ app = "auto" /\ ev = "load_ok" /\ saved
    /\ label_info.kind = "area" /\ mask.fg # {}

=============================================================================
